---------------------------- MODULE Spec2Model ----------------------------
(***************************************************************************)
(* Model of the terminal's command interpreter and virtual file system:   *)
(* src/src/utils/commandProcessor.ts (resolvePath, getObjectByPath,       *)
(* setObjectByPath, deleteObjectByPath, the command handlers),            *)
(* src/src/hooks/useVFS.ts (the in-memory tree, its load and save),       *)
(* src/src/contexts/AuthContext.tsx (the session's user) and              *)
(* src/functions/api/[[path]].ts (the server routes).                     *)
(*                                                                         *)
(* A JavaScript string is a sequence of symbols.  A symbol is one         *)
(* character, except ProtoName, which stands for the nine characters of   *)
(* the property name __proto__ (no "/" and no "." among them).            *)
(***************************************************************************)
EXTENDS Integers, Sequences, FiniteSets, TLC

VARIABLES
    user,            \* AuthContext: user (NoUser or [username, role])
    vfs,             \* useVFS: vfs, the in-memory tree {'~': ...}
    currentPath,     \* useVFS: currentPath
    objectPrototype, \* the properties tree writes have added to Object.prototype
    last,            \* the outcome of the last handler invocation
    kv,              \* the server's KV store: the blob under vfs_<username>
    loads,           \* GET /api/vfs exchanges in flight
    saves,           \* POST /api/vfs requests in flight
    db,              \* the server's users table
    calls,           \* POST /api/admin/* requests in flight
    served,          \* the last /api/admin/* request the server answered
    timers,          \* the live setInterval timers of watch, by id
    activeIntervalId,\* Terminal: activeIntervalId (0 for null)
    intervals,       \* the number of setInterval calls so far
    watches,         \* by timer id: the count asked for, the runs of execute
                     \* so far, those of them that await an answer, and
                     \* whether Ctrl+C cleared the timer
    aliases,         \* localStorage: the item 'aliases'
    call,            \* the pure call under test: its arguments
    ret              \* and what it returned

vars == <<user, vfs, currentPath, objectPrototype, last, kv, loads, saves,
          db, calls, served, timers, activeIntervalId, intervals, watches,
          aliases, call, ret>>

session == <<user, vfs, currentPath, objectPrototype, last>>
network == <<kv, loads, saves>>
admin == <<db, calls, served>>
watching == <<timers, activeIntervalId, intervals, watches>>

----------------------------------------------------------------------------
(* Bounds *)

MaxPathLen == 4
MaxCurLen == 3
MaxTreeDepth == 2
MaxEntries == 4
MaxInFlight == 1
MaxTimers == 1
MaxTicks == 2
MaxWatches == 2
MaxStack == 3
MaxSaves == 2
MaxNested == 3

----------------------------------------------------------------------------
(* Strings *)

ProtoName == "__proto__"
Slash == "/"
Dot == "."
Chars == {Slash, Dot, "~", "a", ProtoName}
Tilde == <<"~">>
DotDot == <<Dot, Dot>>

Strings(n) == UNION {[1..k -> Chars] : k \in 0..n}

\* String.prototype.startsWith('/')
startsWithSlash(s) == Len(s) > 0 /\ s[1] = Slash

\* String.prototype.substring(1)
substring1(s) == SubSeq(s, 2, Len(s))

\* String.prototype.split('/'): the pieces between the slashes, empty ones kept
RECURSIVE splitFrom(_, _, _, _)
splitFrom(s, i, piece, acc) ==
    IF i > Len(s) THEN Append(acc, piece)
    ELSE IF s[i] = Slash THEN splitFrom(s, i + 1, <<>>, Append(acc, piece))
    ELSE splitFrom(s, i + 1, Append(piece, s[i]), acc)

split(s) == splitFrom(s, 1, <<>>, <<>>)

\* Array.prototype.join('/')
RECURSIVE join(_)
join(parts) ==
    IF Len(parts) = 0 THEN <<>>
    ELSE IF Len(parts) = 1 THEN parts[1]
    ELSE parts[1] \o <<Slash>> \o join(Tail(parts))

\* the last element of an array
Last(seq) == seq[Len(seq)]

\* Array.prototype.pop() on a possibly empty array
pop(arr) == IF Len(arr) = 0 THEN arr ELSE SubSeq(arr, 1, Len(arr) - 1)

----------------------------------------------------------------------------
(* resolvePath *)

\* resolveLoop with the '.' test lost: only empty parts are dropped
RECURSIVE resolveLoopKeepsDot(_, _, _)
resolveLoopKeepsDot(parts, i, newPathParts) ==
    IF i > Len(parts) THEN newPathParts
    ELSE IF parts[i] = DotDot
         THEN resolveLoopKeepsDot(parts, i + 1, pop(newPathParts))
    ELSE IF parts[i] # <<>>
         THEN resolveLoopKeepsDot(parts, i + 1, Append(newPathParts, parts[i]))
    ELSE resolveLoopKeepsDot(parts, i + 1, newPathParts)

\* the for loop of resolvePath: newPathParts after parts[i..]
RECURSIVE resolveLoop(_, _, _)
resolveLoop(parts, i, newPathParts) ==
    IF i > Len(parts) THEN newPathParts
    ELSE IF parts[i] = DotDot THEN resolveLoop(parts, i + 1, pop(newPathParts))
    ELSE IF parts[i] # <<Dot>> /\ parts[i] # <<>>
         THEN resolveLoop(parts, i + 1, Append(newPathParts, parts[i]))
    ELSE resolveLoop(parts, i + 1, newPathParts)

resolvePath(path, cur) ==
    IF path = <<>> THEN cur
    ELSE IF startsWithSlash(path) THEN (IF path = <<Slash>> THEN Tilde ELSE path)
    ELSE IF path = Tilde THEN Tilde
    ELSE LET parts == (IF cur = Tilde THEN <<>> ELSE split(substring1(cur)))
                      \o split(path)
             newPathParts == resolveLoop(parts, 1, <<>>)
         IN IF Len(newPathParts) > 0 THEN <<Slash>> \o join(newPathParts)
            ELSE Tilde

----------------------------------------------------------------------------
(* The tree: JavaScript values *)

\* a string value (file text), an object value (a directory: its own
\* properties), and undefined
File(text) == [kind |-> "file", content |-> text]
Dir(entries) == [kind |-> "dir", entries |-> entries]
Undefined == [kind |-> "undefined"]
EmptyDir == Dir(<<>>)

\* typeof v === 'object' && v !== null (no value of the tree is null)
isObject(v) == v.kind = "dir"

\* o.hasOwnProperty(name)
hasOwnProperty(o, name) == name \in DOMAIN o.entries

\* the object with the own property name set to value
withProperty(o, name, value) ==
    Dir([n \in DOMAIN o.entries \cup {name} |->
            IF n = name THEN value ELSE o.entries[n]])

\* a delete that empties the object
withoutAnyProperty(o, name) == Dir(<<>>)

\* the object with the own property name deleted
withoutProperty(o, name) ==
    Dir([n \in DOMAIN o.entries \ {name} |-> o.entries[n]])

\* the object reached from o through the own properties keys, in order
RECURSIVE objectAt(_, _)
objectAt(o, keys) ==
    IF Len(keys) = 0 THEN o ELSE objectAt(o.entries[keys[1]], Tail(keys))

\* o with the object at keys replaced by changed
RECURSIVE replaceAt(_, _, _)
replaceAt(o, keys, changed) ==
    IF Len(keys) = 0 THEN changed
    ELSE withProperty(o, keys[1], replaceAt(o.entries[keys[1]], Tail(keys), changed))

\* The object a walk stands on: in the tree (under obj['~']) or in
\* Object.prototype, from which every object of the tree inherits.
InTree(keys) == [heap |-> "tree", keys |-> keys]
InPrototype(keys) == [heap |-> "prototype", keys |-> keys]
Nowhere == [heap |-> "none", keys |-> <<>>]

isObjectPrototype(at) == at = InPrototype(<<>>)

heapObject(at, root, proto) ==
    objectAt(IF at.heap = "tree" THEN root ELSE proto, at.keys)

\* parent[part] when it is an object, as a place: an own property first,
\* then the prototype chain.  __proto__ reads the prototype itself (null on
\* Object.prototype); any other name reads a property added to
\* Object.prototype.  Nowhere when typeof parent[part] !== 'object' or null.
propertyObject(at, part, root, proto) ==
    LET parent == heapObject(at, root, proto)
    IN IF hasOwnProperty(parent, part)
       THEN (IF isObject(parent.entries[part])
             THEN [heap |-> at.heap, keys |-> Append(at.keys, part)]
             ELSE Nowhere)
       ELSE IF part = <<ProtoName>>
       THEN (IF isObjectPrototype(at) THEN Nowhere ELSE InPrototype(<<>>))
       ELSE IF hasOwnProperty(proto, part) /\ isObject(proto.entries[part])
       THEN InPrototype(<<part>>)
       ELSE Nowhere

\* the for loop of setObjectByPath and deleteObjectByPath: the parent the
\* walk ends on, Nowhere when it returns false
RECURSIVE parentLoop(_, _, _, _, _)
parentLoop(at, parts, i, root, proto) ==
    IF i > Len(parts) THEN at
    ELSE LET child == propertyObject(at, parts[i], root, proto)
         IN IF child = Nowhere THEN Nowhere
            ELSE parentLoop(child, parts, i + 1, root, proto)

\* the for loop of getObjectByPath
RECURSIVE getLoop(_, _, _)
getLoop(current, parts, i) ==
    IF i > Len(parts) THEN current
    ELSE IF ~isObject(current) \/ ~hasOwnProperty(current, parts[i]) THEN Undefined
    ELSE getLoop(current.entries[parts[i]], parts, i + 1)

\* obj['~']
rootOf(obj) == IF Tilde \in DOMAIN obj THEN obj[Tilde] ELSE Undefined

getObjectByPath(obj, path) ==
    IF path = Tilde THEN rootOf(obj)
    ELSE IF ~startsWithSlash(path) THEN Undefined
    ELSE getLoop(rootOf(obj), split(substring1(path)), 1)

\* What a call left behind: its return value (or that it threw), the tree
\* object and Object.prototype as the call left them.
Returned(ok, obj, proto) == [ok |-> ok, threw |-> FALSE, obj |-> obj, proto |-> proto]
Threw(obj, proto) == [ok |-> FALSE, threw |-> TRUE, obj |-> obj, proto |-> proto]

\* the heaps after the object at `at` is replaced by changed
storeObject(at, changed, obj, proto) ==
    IF at.heap = "tree"
    THEN Returned(TRUE, [obj EXCEPT ![Tilde] = replaceAt(@, at.keys, changed)], proto)
    ELSE Returned(TRUE, obj, replaceAt(proto, at.keys, changed))

\* parent[fileName] = value.  The name __proto__ is the prototype setter: it
\* ignores a string, replaces the parent's prototype by an object (nothing
\* own changes), and throws a TypeError on Object.prototype itself.
assignProperty(at, fileName, value, obj, proto) ==
    IF fileName = <<ProtoName>>
    THEN (IF isObject(value) /\ isObjectPrototype(at) THEN Threw(obj, proto)
          ELSE Returned(TRUE, obj, proto))
    ELSE storeObject(at, withProperty(heapObject(at, rootOf(obj), proto), fileName, value),
                     obj, proto)

\* a setObjectByPath for which ~ is a place to write like any other
setObjectByPathWritesRoot(obj, path, value, proto) ==
    IF path = Tilde THEN Returned(TRUE, [obj EXCEPT ![Tilde] = value], proto)
    ELSE IF ~startsWithSlash(path) THEN Returned(FALSE, obj, proto)
    ELSE LET all == split(substring1(path))
             fileName == Last(all)
             parts == pop(all)
         IN IF fileName = <<>> THEN Returned(FALSE, obj, proto)
            ELSE LET parent == parentLoop(InTree(<<>>), parts, 1, rootOf(obj), proto)
                 IN IF parent = Nowhere THEN Returned(FALSE, obj, proto)
                    ELSE assignProperty(parent, fileName, value, obj, proto)

setObjectByPath(obj, path, value, proto) ==
    IF path = Tilde \/ ~startsWithSlash(path) THEN Returned(FALSE, obj, proto)
    ELSE LET all == split(substring1(path))
             fileName == Last(all)
             parts == pop(all)
         IN IF fileName = <<>> THEN Returned(FALSE, obj, proto)
            ELSE LET parent == parentLoop(InTree(<<>>), parts, 1, rootOf(obj), proto)
                 IN IF parent = Nowhere THEN Returned(FALSE, obj, proto)
                    ELSE assignProperty(parent, fileName, value, obj, proto)

deleteObjectByPath(obj, path, proto) ==
    IF path = Tilde \/ ~startsWithSlash(path) THEN Returned(FALSE, obj, proto)
    ELSE LET all == split(substring1(path))
             fileName == Last(all)
             parts == pop(all)
         IN IF fileName = <<>> THEN Returned(FALSE, obj, proto)
            ELSE LET parent == parentLoop(InTree(<<>>), parts, 1, rootOf(obj), proto)
                 IN IF parent = Nowhere THEN Returned(FALSE, obj, proto)
                    ELSE IF hasOwnProperty(heapObject(parent, rootOf(obj), proto), fileName)
                    THEN storeObject(parent,
                             withoutProperty(heapObject(parent, rootOf(obj), proto), fileName),
                             obj, proto)
                    ELSE Returned(FALSE, obj, proto)

----------------------------------------------------------------------------
(* The command handlers of processCommand *)

\* auth.user of a session nobody is logged in to
NoUser == [username |-> "", role |-> ""]

\* JSON.parse(JSON.stringify(v)): a fresh value with the own properties
\* of v and the strings under them
RECURSIVE jsonCopy(_)
jsonCopy(v) ==
    IF isObject(v) THEN Dir([n \in DOMAIN v.entries |-> jsonCopy(v.entries[n])])
    ELSE v

jsonCopyObject(obj) == [k \in DOMAIN obj |-> jsonCopy(obj[k])]

\* args[i], undefined (here the empty string, as falsy) past the end
arg(args, i) == IF i <= Len(args) THEN args[i] ELSE <<>>

\* a JavaScript value used as a condition
truthy(v) == isObject(v) \/ (v.kind = "file" /\ v.content # <<>>)

\* What a handler did: the kind of its result, whether it read the tree,
\* the path it passed to setCurrentPath, the tree it passed to updateVFS,
\* Object.prototype as it left it, the request it sent to /api/admin, (for
\* pwd and ls) the lines it returned, and the timers it passed to setInterval.
Outcome(result, reads, proto) ==
    [result |-> result, reads |-> reads, setsPath |-> FALSE, path |-> <<>>,
     updates |-> FALSE, tree |-> <<>>, proto |-> proto,
     sends |-> FALSE, request |-> <<>>, text |-> {}, starts |-> <<>>]
Denied(proto) == Outcome("denied", FALSE, proto)
Usage(proto) == Outcome("usage", FALSE, proto)
WithPath(o, path) == [o EXCEPT !.setsPath = TRUE, !.path = path]
WithUpdate(o, tree) == [o EXCEPT !.updates = TRUE, !.tree = tree]
WithRequest(o, request) == [o EXCEPT !.sends = TRUE, !.request = request]
WithText(o, lines) == [o EXCEPT !.text = lines]

\* what a handler sees: auth.user, vfsContext.vfs, vfsContext.currentPath
Context(u, tree, cur) == [user |-> u, vfs |-> tree, currentPath |-> cur]

loggedIn(ctx) == ctx.user # NoUser

ls(ctx, args, proto) ==
    IF ~loggedIn(ctx) THEN Denied(proto)
    ELSE LET path == resolvePath(IF arg(args, 1) # <<>> THEN arg(args, 1)
                                 ELSE ctx.currentPath, ctx.currentPath)
             content == getObjectByPath(ctx.vfs, path)
         IN IF ~isObject(content) THEN Outcome("not a directory", TRUE, proto)
            ELSE WithText(Outcome("ok", TRUE, proto), DOMAIN content.entries)

cat(ctx, args, proto) ==
    IF ~loggedIn(ctx) THEN Denied(proto)
    ELSE IF arg(args, 1) = <<>> THEN Usage(proto)
    ELSE LET content == getObjectByPath(ctx.vfs, resolvePath(arg(args, 1), ctx.currentPath))
         IN IF content.kind # "file" THEN Outcome("not a file", TRUE, proto)
            ELSE Outcome("ok", TRUE, proto)

cd(ctx, args, proto) ==
    IF ~loggedIn(ctx) THEN Denied(proto)
    ELSE LET newPath == resolvePath(IF arg(args, 1) # <<>> THEN arg(args, 1) ELSE Tilde,
                                    ctx.currentPath)
             content == getObjectByPath(ctx.vfs, newPath)
         IN IF ~isObject(content) THEN Outcome("no such directory", TRUE, proto)
            ELSE WithPath(Outcome("ok", TRUE, proto), newPath)

pwd(ctx, args, proto) ==
    WithText(Outcome("ok", FALSE, proto),
             {IF loggedIn(ctx) THEN ctx.currentPath ELSE <<Slash>>})

\* a handler that calls updateVFS whatever setObjectByPath returned
whenSetUpdatesAnyway(set, failure) ==
    IF set.threw THEN Outcome("error", TRUE, set.proto)
    ELSE WithUpdate(Outcome(IF set.ok THEN "ok" ELSE failure, TRUE, set.proto), set.obj)

\* setObjectByPath on the copy; a TypeError it throws leaves the handler
whenSet(set, failure) ==
    IF set.threw THEN Outcome("error", TRUE, set.proto)
    ELSE IF set.ok THEN WithUpdate(Outcome("ok", TRUE, set.proto), set.obj)
    ELSE Outcome(failure, TRUE, set.proto)

mkdir(ctx, args, proto) ==
    IF ~loggedIn(ctx) THEN Denied(proto)
    ELSE IF arg(args, 1) = <<>> THEN Usage(proto)
    ELSE LET newDirPath == resolvePath(arg(args, 1), ctx.currentPath)
         IN IF truthy(getObjectByPath(ctx.vfs, newDirPath))
            THEN Outcome("file exists", TRUE, proto)
            ELSE whenSet(setObjectByPath(jsonCopyObject(ctx.vfs), newDirPath, EmptyDir, proto),
                         "invalid path")

\* a touch that leaves an entry it finds at the path as it is
touchKeepsEntry(ctx, args, proto) ==
    IF ~loggedIn(ctx) THEN Denied(proto)
    ELSE IF arg(args, 1) = <<>> THEN Usage(proto)
    ELSE LET newFilePath == resolvePath(arg(args, 1), ctx.currentPath)
         IN IF getObjectByPath(ctx.vfs, newFilePath) # Undefined
            THEN Outcome("ok", TRUE, proto)
            ELSE whenSet(setObjectByPath(jsonCopyObject(ctx.vfs), newFilePath,
                                         File(<<>>), proto),
                         "invalid path")

touch(ctx, args, proto) ==
    IF ~loggedIn(ctx) THEN Denied(proto)
    ELSE IF arg(args, 1) = <<>> THEN Usage(proto)
    ELSE LET newFilePath == resolvePath(arg(args, 1), ctx.currentPath)
         IN whenSet(setObjectByPath(jsonCopyObject(ctx.vfs), newFilePath, File(<<>>), proto),
                    "invalid path")

RecursiveFlag == <<"-r">>

\* an rm that does not look into a directory before it removes it
rmWhateverIsInside(ctx, args, proto) ==
    IF ~loggedIn(ctx) THEN Denied(proto)
    ELSE IF arg(args, 1) = <<>> THEN Usage(proto)
    ELSE LET recursive == arg(args, 1) = RecursiveFlag
             target == IF recursive THEN arg(args, 2) ELSE arg(args, 1)
             path == resolvePath(target, ctx.currentPath)
             content == getObjectByPath(ctx.vfs, path)
             del == deleteObjectByPath(jsonCopyObject(ctx.vfs), path, proto)
         IN IF target = <<>> THEN Usage(proto)
            ELSE IF content = Undefined THEN Outcome("no such file", TRUE, proto)
            ELSE IF del.ok THEN WithUpdate(Outcome("ok", TRUE, del.proto), del.obj)
            ELSE Outcome("nothing removed", TRUE, del.proto)

rm(ctx, args, proto) ==
    IF ~loggedIn(ctx) THEN Denied(proto)
    ELSE IF arg(args, 1) = <<>> THEN Usage(proto)
    ELSE LET recursive == arg(args, 1) = RecursiveFlag
             target == IF recursive THEN arg(args, 2) ELSE arg(args, 1)
             path == resolvePath(target, ctx.currentPath)
             content == getObjectByPath(ctx.vfs, path)
             del == deleteObjectByPath(jsonCopyObject(ctx.vfs), path, proto)
         IN IF target = <<>> THEN Usage(proto)
            ELSE IF content = Undefined THEN Outcome("no such file", TRUE, proto)
            ELSE IF isObject(content) /\ DOMAIN content.entries # {} /\ ~recursive
            THEN Outcome("not empty", TRUE, proto)
            ELSE IF del.ok THEN WithUpdate(Outcome("ok", TRUE, del.proto), del.obj)
            ELSE Outcome("nothing removed", TRUE, del.proto)

\* grep, wc and head end alike once their file argument is known
readFile(ctx, file, proto) ==
    LET content == getObjectByPath(ctx.vfs, resolvePath(file, ctx.currentPath))
    IN IF content.kind # "file" THEN Outcome("no such file", TRUE, proto)
       ELSE Outcome("ok", TRUE, proto)

grep(ctx, args, proto) ==
    IF Len(args) < 2 THEN Usage(proto) ELSE readFile(ctx, args[2], proto)

wc(ctx, args, proto) ==
    IF arg(args, 1) = <<>> THEN Usage(proto) ELSE readFile(ctx, args[1], proto)

LinesFlag == <<"-n">>

head(ctx, args, proto) ==
    LET file == IF arg(args, 1) = LinesFlag THEN arg(args, 3) ELSE arg(args, 1)
    IN IF file = <<>> THEN Usage(proto) ELSE readFile(ctx, file, proto)

\* tree: Object.keys(content) throws when currentPath no longer exists
tree(ctx, args, proto) ==
    IF ~loggedIn(ctx) THEN Denied(proto)
    ELSE IF getObjectByPath(ctx.vfs, ctx.currentPath) = Undefined
    THEN Outcome("error", TRUE, proto)
    ELSE Outcome("ok", TRUE, proto)

VfsVerbs == {"ls", "cat", "cd", "mkdir", "touch", "rm", "grep", "wc", "tree", "head"}
MutatingVerbs == {"mkdir", "touch", "rm"}

\* commands[verb](args, isSudo) for the file system verbs and pwd
vfsCommand(verb, ctx, args, proto) ==
    CASE verb = "ls" -> ls(ctx, args, proto)
      [] verb = "cat" -> cat(ctx, args, proto)
      [] verb = "cd" -> cd(ctx, args, proto)
      [] verb = "pwd" -> pwd(ctx, args, proto)
      [] verb = "mkdir" -> mkdir(ctx, args, proto)
      [] verb = "touch" -> touch(ctx, args, proto)
      [] verb = "rm" -> rm(ctx, args, proto)
      [] verb = "grep" -> grep(ctx, args, proto)
      [] verb = "wc" -> wc(ctx, args, proto)
      [] verb = "head" -> head(ctx, args, proto)
      [] verb = "tree" -> tree(ctx, args, proto)

\* the body of a request to /api/admin/*: the fields the three routes read
Body(username, password, role) ==
    [username |-> username, password |-> password, role |-> role]

\* fetch('/api/admin/<route>') with auth.getAuthHeader(): the token is the
\* one issued to the session's user
Request(route, ctx, body) == [route |-> route, token |-> ctx.user, body |-> body]

passwd(ctx, args, isSudo, proto) ==
    IF ~loggedIn(ctx) /\ ~isSudo THEN Denied(proto)
    ELSE LET targetUser == IF isSudo THEN arg(args, 1) ELSE <<ctx.user.username>>
             newPassword == IF isSudo THEN arg(args, 2) ELSE arg(args, 1)
         IN IF targetUser = <<>> \/ newPassword = <<>> THEN Usage(proto)
            ELSE WithRequest(Outcome("sent", FALSE, proto),
                     Request("passwd", ctx, Body(targetUser[1], newPassword[1], "")))

useradd(ctx, args, proto) ==
    IF arg(args, 1) = <<>> \/ arg(args, 2) = <<>> \/ arg(args, 3) = <<>> THEN Usage(proto)
    ELSE WithRequest(Outcome("sent", FALSE, proto),
             Request("useradd", ctx, Body(args[1][1], args[2][1], args[3][1])))

userdel(ctx, args, proto) ==
    IF arg(args, 1) = <<>> THEN Usage(proto)
    ELSE WithRequest(Outcome("sent", FALSE, proto),
             Request("userdel", ctx, Body(args[1][1], "", "")))

UserVerbs == {"passwd", "useradd", "userdel"}

\* commands[verb](args, isSudo) for every verb but sudo
command(verb, ctx, args, isSudo, proto) ==
    CASE verb = "passwd" -> passwd(ctx, args, isSudo, proto)
      [] verb = "useradd" -> useradd(ctx, args, proto)
      [] verb = "userdel" -> userdel(ctx, args, proto)
      [] OTHER -> vfsCommand(verb, ctx, args, proto)

\* a handler invocation: which handler ran last, the isSudo it got, what it did
Invoked(handler, isSudo, outcome) ==
    [handler |-> handler, isSudo |-> isSudo, outcome |-> outcome]

CommandNames == VfsVerbs \cup UserVerbs \cup {"pwd", "sudo"}

\* commands.watch, called by another handler
RECURSIVE watch(_, _, _)

\* auth.user?.role !== 'admin'
notInSudoers(ctx) == ctx.user.role # "admin"

\* commands[verb](args, isSudo), the sudo handler included: it checks the
\* role, looks args[0] up in commands and calls what it finds with isSudo
\* true.
RECURSIVE dispatch(_, _, _, _, _)
dispatch(verb, ctx, args, isSudo, proto) ==
    IF verb = "watch" THEN Invoked(verb, isSudo, watch(ctx, args, proto))
    ELSE IF verb # "sudo"
    THEN Invoked(verb, isSudo, command(verb, ctx, args, isSudo, proto))
    ELSE IF notInSudoers(ctx)
    THEN Invoked("sudo", isSudo, Outcome("not in sudoers", FALSE, proto))
    ELSE IF arg(args, 1) = <<>> \/ arg(args, 1)[1] \notin CommandNames \cup {"watch"}
    THEN Invoked("sudo", isSudo, Outcome("command not found", FALSE, proto))
    ELSE dispatch(args[1][1], ctx, Tail(args), TRUE, proto)

----------------------------------------------------------------------------
(* Canonical paths (spec.md, section 3) *)

\* the positions of the slashes of s, with 0 and Len(s)+1 as sentinels
SlashAt(s) == {0, Len(s) + 1} \cup {i \in 1..Len(s) : s[i] = Slash}

\* the segments of s: what lies between two neighbouring slashes
SegmentsOf(s) ==
    LET cuts == SlashAt(s)
        next(i) == CHOOSE j \in cuts : j > i /\ \A k \in cuts : k > i => k >= j
        starts == cuts \ {Len(s) + 1}
        nth[n \in 1..Cardinality(starts)] ==
            IF n = 1 THEN 0 ELSE next(nth[n - 1])
    IN [n \in 1..Cardinality(starts) |-> SubSeq(s, nth[n] + 1, next(nth[n]) - 1)]

IsName(seg) == seg # <<>> /\ seg # <<Dot>> /\ seg # DotDot

IsCanonical(s) ==
    \/ s = Tilde
    \/ /\ startsWithSlash(s)
       /\ \A n \in 1..Len(SegmentsOf(substring1(s))) :
              IsName(SegmentsOf(substring1(s))[n])

CanonicalPaths == {s \in Strings(MaxCurLen) : IsCanonical(s)}

NoCall == [fn |-> "none"]

----------------------------------------------------------------------------
(* Pure calls of resolvePath *)

NoOutcome ==
    [verb |-> "none", session |-> NoUser, user |-> NoUser, handler |-> "none",
     isSudo |-> FALSE, pending |-> 0,
     result |-> "none", reads |-> FALSE, sends |-> FALSE]

Usernames == {"admin", "bob", "carol"}
NoBlob == [kind |-> "null"]

\* a row of users: password_hash (here the password it is the hash of), role
Account(password, role) == [exists |-> TRUE, password |-> password, role |-> role]
NoAccount == [exists |-> FALSE]
InitialDb ==
    [n \in Usernames |->
        CASE n = "admin" -> Account("pw0", "admin")
          [] n = "bob" -> Account("pw0", "guest")
          [] OTHER -> NoAccount]
NoRequest == [route |-> "none"]

\* localStorage.getItem('aliases'): null when the item was never set, or the
\* text stored: the JSON of an object, the JSON of null, or no JSON at all
NoAliases == [kind |-> "absent"]
AliasTable(table) == [kind |-> "object", table |-> table]
JsonNull == [kind |-> "null"]
NotJson == [kind |-> "malformed"]

\* nothing stored, nothing in flight, no timer
RestIdle ==
    /\ kv = [n \in Usernames |-> NoBlob]
    /\ loads = <<>>
    /\ saves = <<>>
    /\ db = InitialDb
    /\ calls = <<>>
    /\ served = NoRequest
    /\ timers = <<>>
    /\ activeIntervalId = 0
    /\ intervals = 0
    /\ watches = <<>>

InitResolve ==
    /\ user = NoUser
    /\ vfs = (Tilde :> EmptyDir)
    /\ objectPrototype = EmptyDir
    /\ last = NoOutcome
    /\ RestIdle
    /\ aliases = NoAliases
    /\ currentPath \in CanonicalPaths
    /\ call \in [fn : {"resolvePath"}, path : Strings(MaxPathLen)]
    /\ ret = NoCall

CallResolve ==
    /\ call.fn = "resolvePath"
    /\ ret = NoCall
    /\ ret' = [fn |-> "resolvePath", value |-> resolvePath(call.path, currentPath)]
    /\ UNCHANGED <<session, network, admin, watching, aliases, call>>

NextResolve == CallResolve

SpecResolve == InitResolve /\ [][NextResolve]_vars

----------------------------------------------------------------------------
(* Pure calls of getObjectByPath, setObjectByPath and deleteObjectByPath *)

\* The trees the calls start from: a chain of directories named a, at most
\* MaxTreeDepth deep, each directory with or without a sibling file named
\* '.'; the chain ends in a file, an empty directory or nothing.
TreeValues == {File(<<>>), EmptyDir}

RECURSIVE SampleDirs(_)
SampleDirs(depth) ==
    IF depth = 0 THEN {EmptyDir}
    ELSE LET below == {File(<<>>)} \cup SampleDirs(depth - 1)
             chains == {<<>>} \cup {(<<"a">> :> n) : n \in below}
         IN {Dir(c) : c \in chains}
            \cup {Dir(c @@ (<<Dot>> :> File(<<>>))) : c \in chains}

SampleTrees == {(Tilde :> d) : d \in SampleDirs(MaxTreeDepth)}

\* The paths of the calls: ~ itself, and every string in which ~ is not a
\* symbol (inside a longer path ~ is a name character like any other: the
\* code compares only the whole path with '~').
TreePaths == {Tilde} \cup {s \in Strings(MaxPathLen) : \A i \in 1..Len(s) : s[i] # "~"}

\* Object.prototype as a page starts with it, and after mkdir /__proto__/a
SamplePrototypes == {EmptyDir, Dir(<<"a">> :> EmptyDir)}

InitTree ==
    /\ user = NoUser
    /\ RestIdle
    /\ aliases = NoAliases
    /\ currentPath = Tilde
    /\ last = NoOutcome
    /\ vfs \in SampleTrees
    /\ objectPrototype \in SamplePrototypes
    /\ call \in [fn : {"tree"}, path : TreePaths, value : TreeValues]
    /\ ret = NoCall

\* setObjectByPath(vfs, path, value), which writes into its argument
CallSet ==
    /\ call.fn = "tree"
    /\ ret = NoCall
    /\ LET res == setObjectByPath(vfs, call.path, call.value, objectPrototype)
       IN /\ vfs' = res.obj
          /\ objectPrototype' = res.proto
          /\ ret' = [fn |-> "set", ok |-> res.ok, threw |-> res.threw,
                     before |-> vfs, got |-> Undefined]
    /\ UNCHANGED <<user, currentPath, last, network, admin, watching, aliases, call>>

\* deleteObjectByPath(vfs, path)
CallDelete ==
    /\ call.fn = "tree"
    /\ ret = NoCall
    /\ LET res == deleteObjectByPath(vfs, call.path, objectPrototype)
       IN /\ vfs' = res.obj
          /\ objectPrototype' = res.proto
          /\ ret' = [fn |-> "delete", ok |-> res.ok, threw |-> res.threw,
                     before |-> vfs, got |-> Undefined]
    /\ UNCHANGED <<user, currentPath, last, network, admin, watching, aliases, call>>

\* getObjectByPath(vfs, path) on the tree the set or delete left
CallGet ==
    /\ ret.fn \in {"set", "delete"}
    /\ ret' = [fn |-> "get", after |-> ret.fn, ok |-> ret.ok, threw |-> ret.threw,
               before |-> ret.before, got |-> getObjectByPath(vfs, call.path)]
    /\ UNCHANGED <<session, network, admin, watching, aliases, call>>

NextTree == CallSet \/ CallDelete \/ CallGet

SpecTree == InitTree /\ [][NextTree]_vars

----------------------------------------------------------------------------
(* The session: commands typed at the prompt, login, logout, load and save *)

Admin == [username |-> "admin", role |-> "admin"]
Bob == [username |-> "bob", role |-> "guest"]

GuestVfs == (Tilde :> EmptyDir)

ReadmeName == <<"README.md">>
WelcomeText(username) ==
    <<"# Welcome, ", username, "!\n\nThis is your personal file system.">>

\* the tree GET /api/vfs creates for a user who has none
defaultVfs(username) ==
    (Tilde :> Dir(ReadmeName :> File(WelcomeText(username))))

\* the number of properties below a value
RECURSIVE countEntries(_)
countEntries(v) ==
    IF ~isObject(v) THEN 0
    ELSE LET names == DOMAIN v.entries
             sum[ns \in SUBSET names] ==
                 IF ns = {} THEN 0
                 ELSE LET n == CHOOSE x \in ns : TRUE
                      IN 1 + countEntries(v.entries[n]) + sum[ns \ {n}]
         IN sum[names]

\* saveVFS(newVfs) of the render whose user is u: the requests in flight
\* after it
saveVFS(u, newVfs, inFlight) ==
    IF u = NoUser THEN inFlight
    ELSE Append(inFlight, [username |-> u.username, tree |-> newVfs])

Remove(seq, i) == SubSeq(seq, 1, i - 1) \o SubSeq(seq, i + 1, Len(seq))

\* what the caller of processCommand does once the promise settles: nothing
\* the model records, for a line typed at the prompt
NoContinuation == [kind |-> "none"]

\* the timers and what Terminal and the model record of them
Watching ==
    [timers |-> timers, active |-> activeIntervalId, intervals |-> intervals,
     watches |-> watches]

\* intervalId = setInterval(runInterval, ...) and
\* terminalController.setActiveInterval(intervalId), which does nothing when
\* the controller is the fake one that execute hands to processCommand
started(w, timer, visible) ==
    [timers |-> (w.intervals + 1 :> (timer @@ [visible |-> visible])) @@ w.timers,
     active |-> IF visible THEN w.intervals + 1 ELSE w.active,
     intervals |-> w.intervals + 1,
     watches |-> (w.intervals + 1 :>
                    [count |-> timer.count, runs |-> 1, awaiting |-> 0,
                     interrupted |-> FALSE])
                 @@ w.watches]

\* what is left of a watch once the command of its execute has settled: after
\* the first execute setInterval and setActiveInterval, after the execute of
\* a tick nothing but its pushToHistory
resumed(w, then) ==
    CASE then.kind = "start" -> started(w, then.timer, then.visible)
      [] then.kind = "tick" -> [w EXCEPT !.watches[then.id].awaiting = @ - 1]
      [] OTHER -> w

RECURSIVE resumedAll(_, _)
resumedAll(w, thens) ==
    IF thens = <<>> THEN w ELSE resumedAll(resumed(w, Head(thens)), Tail(thens))

Resume(w) ==
    /\ timers' = w.timers
    /\ activeIntervalId' = w.active
    /\ intervals' = w.intervals
    /\ watches' = w.watches

\* processCommand(line, auth, vfsContext, addToast, controller) for the line
\* verb args, with the user, tree and currentPath that auth and vfsContext
\* hold; typed is the verb of the line the user entered.  The handlers of a
\* line that awaits no answer run to their end, and so does then, the rest of
\* the caller; a handler that awaits fetch leaves its request in flight
\* together with all that is to go on after the answer.  base is what the
\* caller has made of the timers before the call.
ExecuteThen(typed, verb, args, ctx, controller, base, then) ==
    \E inv \in {dispatch(verb, ctx, args, FALSE, objectPrototype)} :
      \E o \in {inv.outcome} :
       /\ o.updates => countEntries(o.tree[Tilde]) + countEntries(o.proto) <= MaxEntries
       /\ o.updates /\ ctx.user # NoUser => Len(saves) < MaxSaves
       /\ o.sends => Len(calls) < MaxInFlight
       /\ last' = [verb |-> typed, session |-> user, user |-> ctx.user,
                   handler |-> inv.handler, pending |-> Len(calls),
                   isSudo |-> inv.isSudo, result |-> o.result, reads |-> o.reads,
                   sends |-> o.sends]
       /\ objectPrototype' = o.proto
       /\ currentPath' = IF o.setsPath THEN o.path ELSE currentPath
       /\ vfs' = IF o.updates THEN o.tree ELSE vfs
       /\ saves' = IF o.updates THEN saveVFS(ctx.user, o.tree, saves) ELSE saves
       /\ base.intervals + Len(o.starts) <= MaxNested
       /\ \E thens \in {[i \in 1..Len(o.starts) |->
                             [kind |-> "start", timer |-> o.starts[i].timer,
                              visible |-> ~o.starts[i].hidden
                                              /\ controller = "terminal"]]
                         \o <<then>>} :
              /\ calls' = IF o.sends THEN Append(calls, o.request @@ [then |-> thens])
                          ELSE calls
              /\ Resume(IF o.sends THEN base ELSE resumedAll(base, thens))
       /\ UNCHANGED <<user, kv, loads, db, served, aliases, call, ret>>

Execute(typed, verb, args, ctx) ==
    ExecuteThen(typed, verb, args, ctx, "terminal", Watching, NoContinuation)

\* One command line, from Enter to the end of its handler, run with the
\* user, tree and currentPath of the latest render.
Run(verb, args) == Execute(verb, verb, args, Context(user, vfs, currentPath))

\* login(): POST /api/login finds the row of name (the password typed is
\* the stored one) and signs a token with its role; setUser then makes the
\* effect of useVFS call fetchVFS, which sends GET /api/vfs with that token.
LoginResponse(name) ==
    /\ user = NoUser
    /\ db[name].exists
    /\ Len(loads) < MaxInFlight
    /\ user' = [username |-> name, role |-> db[name].role]
    /\ loads' = Append(loads, [username |-> name, stage |-> "request"])
    /\ UNCHANGED <<vfs, currentPath, objectPrototype, last, kv, saves, admin, watching, aliases, call, ret>>

\* the logout command: auth.logout(), then the effect's fetchVFS without a
\* user resets the tree and the path
Logout ==
    /\ last' = [verb |-> "logout", session |-> user, user |-> user,
                handler |-> "logout", isSudo |-> FALSE, pending |-> Len(calls),
                result |-> IF user = NoUser THEN "not logged in" ELSE "ok",
                reads |-> FALSE, sends |-> FALSE]
    /\ user' = NoUser
    /\ vfs' = IF user = NoUser THEN vfs ELSE GuestVfs
    /\ currentPath' = IF user = NoUser THEN currentPath ELSE Tilde
    /\ UNCHANGED <<objectPrototype, network, admin, watching, aliases, call, ret>>

\* vfsRoutes.get('/') up to its first await: SITE_KV.get(vfsKey, 'json')
ReadBlob(i) ==
    /\ loads[i].stage = "request"
    /\ loads' = [loads EXCEPT ![i] = [username |-> loads[i].username, stage |-> "read",
                                      data |-> kv[loads[i].username]]]
    /\ UNCHANGED <<session, kv, saves, admin, watching, aliases, call, ret>>

\* vfsRoutes.get('/') after it: the tree it read, or, when it read none, the
\* default one, which it puts under the key
ServeLoad(i) ==
    /\ loads[i].stage = "read"
    /\ LET name == loads[i].username
           data == IF loads[i].data = NoBlob THEN defaultVfs(name) ELSE loads[i].data
       IN /\ kv' = IF loads[i].data = NoBlob THEN [kv EXCEPT ![name] = data] ELSE kv
          /\ loads' = [loads EXCEPT ![i] = [username |-> name, stage |-> "response",
                                            data |-> data]]
    /\ UNCHANGED <<session, saves, admin, watching, aliases, call, ret>>

\* fetchVFS after its await: setVfs(data); setCurrentPath('~')
LoadArrives(i) ==
    /\ loads[i].stage = "response"
    /\ vfs' = loads[i].data
    /\ currentPath' = Tilde
    /\ loads' = Remove(loads, i)
    /\ UNCHANGED <<user, objectPrototype, last, kv, saves, admin, watching, aliases, call, ret>>

\* vfsRoutes.post('/'): the body replaces the blob of the token's user
ServeSave(i) ==
    /\ kv' = [kv EXCEPT ![saves[i].username] = saves[i].tree]
    /\ saves' = Remove(saves, i)
    /\ UNCHANGED <<session, loads, admin, watching, aliases, call, ret>>

Loading == \E i \in 1..Len(loads) : ReadBlob(i) \/ ServeLoad(i) \/ LoadArrives(i)
Saving == \E i \in 1..Len(saves) : ServeSave(i)

\* the words after the verb
Name == <<"a">>
PathArgs == {Name, DotDot, Tilde, <<Slash>>, <<Slash, Dot>>, <<Slash, "a", Slash, "a">>,
             <<Slash, ProtoName>>, <<Slash, ProtoName, Slash, "a">>}
OnePath == {<<>>} \cup {<<p>> : p \in PathArgs}

ArgsOf(verb) ==
    CASE verb \in {"pwd", "tree"} -> {<<>>}
      [] verb = "rm" -> OnePath \cup {<<RecursiveFlag>>}
                        \cup {<<RecursiveFlag, p>> : p \in PathArgs}
      [] verb = "grep" -> {<<Name>>} \cup {<<Name, p>> : p \in PathArgs}
      [] verb = "head" -> OnePath \cup {<<LinesFlag, Name, p>> : p \in PathArgs}
      [] OTHER -> OnePath

SudoArgs == {<<>>} \cup {<<<<v>>>> \o a : v \in {"touch", "pwd"}, a \in OnePath}

Quiet == loads = <<>> /\ saves = <<>>
\* the account of the sessions in which files are made and removed
SessionUsers == {"admin"}

InitSession ==
    /\ user = NoUser
    /\ vfs = GuestVfs
    /\ currentPath = Tilde
    /\ objectPrototype = EmptyDir
    /\ last = NoOutcome
    /\ RestIdle
    /\ aliases = NoAliases
    /\ call = NoCall
    /\ ret = NoCall

\* what a user does who lets the network settle before the next key
TypeCommand ==
    Quiet /\ \E verb \in VfsVerbs \cup {"pwd"} : \E args \in ArgsOf(verb) : Run(verb, args)
TypeSudo == Quiet /\ \E args \in SudoArgs : Run("sudo", args)
Login == Quiet /\ \E name \in SessionUsers : LoginResponse(name)
TypeLogout == Quiet /\ Logout

Next == TypeCommand \/ TypeSudo \/ Login \/ TypeLogout \/ Loading \/ Saving

Spec == InitSession /\ [][Next]_vars

----------------------------------------------------------------------------
(* The session of a user who does not wait for the network *)

TouchOnline == Run("touch", <<Name>>)
LoginOnline == \E name \in Usernames : LoginResponse(name)

NextNet == TouchOnline \/ LoginOnline \/ Logout \/ Loading \/ Saving

SpecNet == InitSession /\ [][NextNet]_vars

----------------------------------------------------------------------------
(* User management: the /api/admin routes and the commands that call them *)

\* what a route answered, with the table and the store as it left them
Answer(status, table, store) == [status |-> status, db |-> table, kv |-> store]

isRow(table, username) == username \in DOMAIN table /\ table[username].exists

passwdRoute(token, body, table, store) ==
    IF token.role # "admin" /\ token.username # body.username
    THEN Answer("403 Permission denied", table, store)
    ELSE IF body.username = "" \/ body.password = ""
    THEN Answer("400", table, store)
    ELSE IF isRow(table, body.username)
    THEN Answer("success",
                [table EXCEPT ![body.username].password = body.password], store)
    ELSE Answer("not found", table, store)

useraddRoute(token, body, table, store) ==
    IF body.username = "" \/ body.password = "" \/ body.role \notin {"admin", "guest"}
    THEN Answer("400", table, store)
    ELSE IF isRow(table, body.username) THEN Answer("500", table, store)
    ELSE Answer("success",
                [table EXCEPT ![body.username] = Account(body.password, body.role)],
                store)

userdelRoute(token, body, table, store) ==
    IF body.username = "admin" THEN Answer("400", table, store)
    ELSE IF isRow(table, body.username)
    THEN Answer("success", [table EXCEPT ![body.username] = NoAccount],
                [store EXCEPT ![body.username] = NoBlob])
    ELSE Answer("not found", table, store)

\* adminRoutes.use('*', authMiddleware, ...): "next" when the route runs
adminMiddleware(token) ==
    IF token = NoUser THEN "401"
    ELSE IF token.role # "admin" THEN "403 Forbidden"
    ELSE "next"

adminRoutes(request, table, store) ==
    IF adminMiddleware(request.token) # "next"
    THEN Answer(adminMiddleware(request.token), table, store)
    ELSE CASE request.route = "passwd" ->
                  passwdRoute(request.token, request.body, table, store)
           [] request.route = "useradd" ->
                  useraddRoute(request.token, request.body, table, store)
           [] request.route = "userdel" ->
                  userdelRoute(request.token, request.body, table, store)

\* the server answers a request to /api/admin/*, and the handler that
\* awaited the answer goes on
ServeAdmin(i) ==
    \E answer \in {adminRoutes(calls[i], db, kv)} :
        /\ db' = answer.db
        /\ kv' = answer.kv
        /\ served' = [route |-> calls[i].route, token |-> calls[i].token,
                      body |-> calls[i].body, status |-> answer.status]
        /\ calls' = Remove(calls, i)
        /\ Resume(resumedAll(Watching, calls[i].then))
        /\ UNCHANGED <<session, loads, saves, aliases, call, ret>>

NewPassword == <<"pw1">>
PasswdArgs == {<<>>, <<NewPassword>>}
UseraddArgs == {<<<<"carol">>, NewPassword>>}
                   \cup {<<<<"carol">>, NewPassword, <<r>>>> : r \in {"admin", "guest"}}
UserdelArgs == {<<>>} \cup {<<<<n>>>> : n \in Usernames}
SudoUserArgs ==
    {<<>>} \cup {<<<<"passwd">>, <<n>>, NewPassword>> : n \in Usernames}
           \cup {<<<<"useradd">>>> \o a : a \in UseraddArgs}
           \cup {<<<<"userdel">>>> \o a : a \in UserdelArgs}
           \cup {<<<<"sudo">>, <<"userdel">>, <<"bob">>>>}

\* what a user does who waits for the answer before the next key
Answered == Quiet /\ calls = <<>>
TypePasswd == Answered /\ \E args \in PasswdArgs : Run("passwd", args)
TypeUseradd == Answered /\ \E args \in UseraddArgs : Run("useradd", args)
TypeUserdel == Answered /\ \E args \in UserdelArgs : Run("userdel", args)
TypeSudoUser == Answered /\ \E args \in SudoUserArgs : Run("sudo", args)
LoginAny == Answered /\ \E name \in Usernames : LoginResponse(name)
LogoutAnswered == Answered /\ Logout
Serving == \E i \in 1..Len(calls) : ServeAdmin(i)

NextAdmin ==
    TypePasswd \/ TypeUseradd \/ TypeUserdel \/ TypeSudoUser \/ LoginAny
        \/ LogoutAnswered \/ Loading \/ Serving

SpecAdmin == InitSession /\ [][NextAdmin]_vars

\* A guest's session while an administrator, in a session of their own,
\* deletes accounts: the userdel request of that other session reaches the
\* server like any request of this one, and the guest keeps the token issued
\* at login.
UserdelElsewhere ==
    /\ Len(calls) < MaxInFlight
    /\ \E name \in Usernames :
           calls' = Append(calls,
                           userdel(Context(Admin, GuestVfs, Tilde), <<<<name>>>>,
                                   objectPrototype).request
                               @@ [then |-> <<NoContinuation>>])
    /\ UNCHANGED <<session, network, db, served, watching, aliases, call, ret>>

LoginGuest == LoginResponse("bob")

NextDeleted == TouchOnline \/ LoginGuest \/ Loading \/ Saving \/ UserdelElsewhere \/ Serving

SpecDeleted == InitSession /\ [][NextDeleted]_vars

----------------------------------------------------------------------------
(* watch: a command repeated by a timer *)

\* count: Infinity, or a number
Infinity == [finite |-> FALSE, n |-> 0]
Finite(n) == [finite |-> TRUE, n |-> n]

CountFlag == <<"-c">>

\* parseInt(token, 10) || Infinity, for the tokens "1", "2", "3"
parseCount(token) ==
    CASE token = <<"1">> -> Finite(1)
      [] token = <<"2">> -> Finite(2)
      [] token = <<"3">> -> Finite(3)
      [] OTHER -> Infinity

\* the loop over args: -n and -c take the next word, the rest is the command
RECURSIVE watchOptions(_, _, _)
watchOptions(args, i, parsed) ==
    IF i > Len(args) THEN parsed
    ELSE IF args[i] = LinesFlag THEN watchOptions(args, i + 2, parsed)
    ELSE IF args[i] = CountFlag
    THEN watchOptions(args, i + 2, [parsed EXCEPT !.count = parseCount(arg(args, i + 1))])
    ELSE watchOptions(args, i + 1,
             [parsed EXCEPT !.commandToRunArgs = Append(@, args[i])])

\* executions < count, executions >= count
lessThan(executions, count) == ~count.finite \/ executions < count.n
reached(executions, count) == count.finite /\ executions >= count.n

\* a line the watch handler answers without running anything
Refuse(result) ==
    /\ last' = [verb |-> "watch", session |-> user, user |-> user,
                handler |-> "watch", isSudo |-> FALSE, pending |-> Len(calls),
                result |-> result, reads |-> FALSE, sends |-> FALSE]
    /\ UNCHANGED <<user, vfs, currentPath, objectPrototype, network, admin, watching,
                   aliases, call, ret>>

without(f, id) == [i \in DOMAIN f \ {id} |-> f[i]]

\* The watch handler: execute() once, then setInterval(runInterval).  execute
\* passes on the auth and vfsContext the handler was called with.  When the
\* command of the first execute awaits an answer, the rest of the handler
\* waits with it.
WatchStart(args) ==
    \E parsed \in {watchOptions(args, 1, [count |-> Infinity, commandToRunArgs |-> <<>>])} :
      \E cmd \in {parsed.commandToRunArgs} :
        IF cmd = <<>> THEN Refuse("usage")
        ELSE IF cmd[1] = <<"watch">> THEN Refuse("cannot watch watch")
        ELSE ExecuteThen("watch", cmd[1][1], Tail(cmd), Context(user, vfs, currentPath),
                         "fake", Watching,
                         IF lessThan(0, parsed.count)
                         THEN [kind |-> "start", visible |-> TRUE,
                               timer |-> [verb |-> cmd[1][1], args |-> Tail(cmd),
                                          ctx |-> Context(user, vfs, currentPath),
                                          executions |-> 0, count |-> parsed.count]]
                         ELSE NoContinuation)

\* The same handler called by another one (sudo): what its first execute
\* did, and the timer it starts on top of those the command started
watch(ctx, args, proto) ==
    LET parsed == watchOptions(args, 1, [count |-> Infinity, commandToRunArgs |-> <<>>])
        cmd == parsed.commandToRunArgs
    IN IF cmd = <<>> THEN Outcome("usage", FALSE, proto)
       ELSE IF cmd[1] = <<"watch">> THEN Outcome("cannot watch watch", FALSE, proto)
       ELSE LET o == dispatch(cmd[1][1], ctx, Tail(cmd), FALSE, proto).outcome
                inner == [i \in 1..Len(o.starts) |-> [o.starts[i] EXCEPT !.hidden = TRUE]]
                own == [hidden |-> FALSE,
                        timer |-> [verb |-> cmd[1][1], args |-> Tail(cmd), ctx |-> ctx,
                                   executions |-> 0, count |-> parsed.count]]
            IN [o EXCEPT !.result = "ok", !.text = {},
                         !.starts = IF lessThan(0, parsed.count) THEN Append(inner, own)
                                    ELSE inner]

\* runInterval, the timer's callback
WatchTick(id) ==
    /\ timers[id].executions < MaxTicks
    /\ \E executions \in {timers[id].executions + 1} :
         ExecuteThen("watch", timers[id].verb, timers[id].args, timers[id].ctx, "fake",
                     [timers |-> IF reached(executions, timers[id].count)
                                 THEN without(timers, id)
                                 ELSE [timers EXCEPT ![id].executions = executions],
                      active |-> IF reached(executions, timers[id].count)
                                      /\ timers[id].visible
                                 THEN 0 ELSE activeIntervalId,
                      intervals |-> intervals,
                      watches |-> [watches EXCEPT ![id].runs = @ + 1,
                                                  ![id].awaiting = @ + 1]],
                     [kind |-> "tick", id |-> id])

\* Ctrl+C while activeIntervalId is set
CtrlC ==
    /\ activeIntervalId # 0
    /\ timers' = without(timers, activeIntervalId)
    /\ activeIntervalId' = 0
    /\ watches' = [id \in DOMAIN watches |->
                      IF id = activeIntervalId /\ id \in DOMAIN timers
                      THEN [watches[id] EXCEPT !.interrupted = TRUE]
                      ELSE watches[id]]
    /\ UNCHANGED <<session, network, admin, intervals, aliases, call, ret>>

OtherName == <<"a", "a">>

WatchArgs ==
    {<<>>, <<<<"watch">>, <<"ls">>>>,
     <<<<"touch">>, Name>>,
     <<CountFlag, <<"1">>, <<"mkdir">>, Name>>,
     <<CountFlag, <<"2">>, <<"rm">>, OtherName>>,
     <<<<"sudo">>, <<"userdel">>, <<"bob">>>>}

\* the watch handlers that wait for the answer to their first execute
Starting ==
    {i \in 1..Len(calls) : \E k \in 1..Len(calls[i].then) : calls[i].then[k].kind = "start"}

TypeWatch ==
    /\ Quiet
    /\ intervals + Cardinality(Starting) < MaxTimers
    /\ \E args \in WatchArgs : WatchStart(args)
TypeBesideWatch == Quiet /\ \E verb \in {"touch", "rm"} : Run(verb, <<OtherName>>)
TypeCtrlC == Quiet /\ CtrlC
Tick == \E id \in DOMAIN timers : WatchTick(id)

NextWatch ==
    TypeWatch \/ TypeBesideWatch \/ Login \/ TypeLogout \/ TypeCtrlC \/ Tick
        \/ Loading \/ Saving \/ Serving

SpecWatch == InitSession /\ [][NextWatch]_vars

\* Watches started one after the other in a session nobody is logged in to,
\* where pwd prints / and changes nothing: only the timers move.
TimerArgs ==
    {<<<<"pwd">>>>, <<CountFlag, <<"1">>, <<"pwd">>>>, <<CountFlag, <<"2">>, <<"pwd">>>>}

TypeWatchPwd == intervals < MaxWatches /\ \E args \in TimerArgs : WatchStart(args)

NextTimers == TypeWatchPwd \/ TypeCtrlC \/ Tick

SpecTimers == InitSession /\ [][NextTimers]_vars

\* Watches of an administrator whose command is itself a watch, reached
\* through sudo
NestedArgs ==
    {<<<<"pwd">>>>, <<<<"sudo">>, <<"watch">>, <<"pwd">>>>,
     <<<<"sudo">>, <<"watch">>, <<"watch">>, <<"pwd">>>>,
     <<CountFlag, <<"1">>, <<"sudo">>, <<"watch">>, CountFlag, <<"1">>, <<"pwd">>>>}

TypeNested == Quiet /\ intervals = 0 /\ \E args \in NestedArgs : WatchStart(args)

NextNested == TypeNested \/ Login \/ TypeLogout \/ TypeCtrlC \/ Tick \/ Loading

SpecNested == InitSession /\ [][NextNested]_vars

----------------------------------------------------------------------------
(* Aliases: the head of processCommand and the alias command *)

Space == " "
Quote == "'"
Equals == "="

\* String.prototype.split(' ')
RECURSIVE splitAtSpaces(_, _, _, _)
splitAtSpaces(s, i, piece, acc) ==
    IF i > Len(s) THEN Append(acc, piece)
    ELSE IF s[i] = Space THEN splitAtSpaces(s, i + 1, <<>>, Append(acc, piece))
    ELSE splitAtSpaces(s, i + 1, Append(piece, s[i]), acc)

\* commandStr.split(' ').filter(Boolean)
words(s) == SelectSeq(splitAtSpaces(s, 1, <<>>, <<>>), LAMBDA w : w # <<>>)

\* args.join(' ')
RECURSIVE joinWords(_)
joinWords(args) ==
    IF Len(args) = 0 THEN <<>>
    ELSE IF Len(args) = 1 THEN args[1]
    ELSE args[1] \o <<Space>> \o joinWords(Tail(args))

\* an object in a string concatenation
ObjectText == <<"[object", Space, "Object]">>

\* JSON.parse(localStorage.getItem('aliases') || '{}'), when it returns an
\* object
parsedAliases(stored) == IF stored.kind = "absent" THEN <<>> ELSE stored.table

\* aliases[cmd] in a concatenation, the empty string when it is undefined:
\* an own property of the table, or what the table inherits from
\* Object.prototype
aliasValue(table, cmd, proto) ==
    IF cmd \in DOMAIN table THEN table[cmd]
    ELSE IF cmd = <<ProtoName>> THEN ObjectText
    ELSE IF hasOwnProperty(proto, cmd)
    THEN (IF isObject(proto.entries[cmd]) THEN ObjectText ELSE proto.entries[cmd].content)
    ELSE <<>>

Rejected(error) == [kind |-> "rejected", error |-> error]

\* processCommand down to `const commands`: the line is split into words,
\* the item is parsed, and a line whose first word has an alias is replaced
\* by the alias and the other words and processed again, one call deeper.
\* The calls nest, none awaits: the stack holds MaxStack of them.
RECURSIVE aliasResolution(_, _, _, _)
aliasResolution(commandStr, stored, proto, depth) ==
    LET all == words(commandStr)
    IN IF all = <<>> THEN [kind |-> "empty", depth |-> depth]
       ELSE IF stored.kind = "malformed" THEN Rejected("SyntaxError")
       ELSE IF stored.kind = "null" THEN Rejected("TypeError")
       ELSE LET value == aliasValue(parsedAliases(stored), all[1], proto)
            IN IF value = <<>>
               THEN [kind |-> "commands", cmd |-> all[1], args |-> Tail(all),
                     depth |-> depth]
               ELSE IF depth >= MaxStack THEN Rejected("RangeError")
               ELSE aliasResolution(value \o <<Space>> \o joinWords(Tail(all)),
                                    stored, proto, depth + 1)

\* the position of the first = of s, 0 when it has none
firstEquals(s) ==
    IF \E i \in 1..Len(s) : s[i] = Equals
    THEN CHOOSE i \in 1..Len(s) : s[i] = Equals /\ \A j \in 1..(i - 1) : s[j] # Equals
    ELSE 0

\* arg.match(/^([^=]+)='([^']*)'$/)
aliasMatch(s) ==
    LET eq == firstEquals(s)
    IN /\ eq > 1
       /\ Len(s) >= eq + 2
       /\ s[eq + 1] = Quote
       /\ s[Len(s)] = Quote
       /\ \A i \in (eq + 2)..(Len(s) - 1) : s[i] # Quote

\* commands.alias: what it returns and the item it leaves.  Assigning to
\* the name __proto__ sets no property.
alias(stored, args) ==
    LET table == parsedAliases(stored)
        argText == joinWords(args)
        eq == firstEquals(argText)
        name == SubSeq(argText, 1, eq - 1)
        commandText == SubSeq(argText, eq + 2, Len(argText) - 1)
    IN IF argText = <<>> THEN [result |-> "ok", item |-> stored]
       ELSE IF args[1] = CountFlag THEN [result |-> "ok", item |-> AliasTable(<<>>)]
       ELSE IF ~aliasMatch(argText) THEN [result |-> "usage", item |-> stored]
       ELSE IF name = <<ProtoName>> THEN [result |-> "ok", item |-> AliasTable(table)]
       ELSE [result |-> "ok", item |-> AliasTable((name :> commandText) @@ table)]

\* what a line leaves behind that reached none of the handlers above
Reply(typed, handler, result) ==
    /\ last' = [verb |-> typed, session |-> user, user |-> user, handler |-> handler,
                pending |-> Len(calls), isSudo |-> FALSE, result |-> result,
                reads |-> FALSE, sends |-> FALSE]
    /\ UNCHANGED <<user, vfs, currentPath, objectPrototype, network, admin, watching,
                   call, ret>>

\* the first word of a line, as the name of a verb
firstWord(line) == IF words(line) = <<>> THEN "" ELSE words(line)[1][1]

\* processCommand(line, ...) with the aliases: a line that is resolved to a
\* word of commands runs its handler inside try and catch; a call that
\* throws before that leaves processCommand rejected.
Submit(line) ==
    \E r \in {aliasResolution(line, aliases, objectPrototype, 0)} :
        IF r.kind = "rejected"
        THEN Reply(firstWord(line), "none", r.error) /\ UNCHANGED aliases
        ELSE IF r.kind = "empty"
        THEN Reply(firstWord(line), "none", "empty") /\ UNCHANGED aliases
        ELSE IF r.cmd = <<"alias">>
        THEN \E a \in {alias(aliases, r.args)} :
                 Reply(firstWord(line), "alias", a.result) /\ aliases' = a.item
        ELSE IF Len(r.cmd) = 1 /\ r.cmd[1] \in CommandNames
        THEN Execute(firstWord(line), r.cmd[1], r.args, Context(user, vfs, currentPath))
        ELSE Reply(firstWord(line), "none", "command not found") /\ UNCHANGED aliases

AliasNames == {"foo", "bar"}
AliasCommands ==
    {<<"foo">>, <<"bar">>, <<"pwd">>, <<"foo", Space, "pwd">>, <<Space>>, <<>>}

ClearLine == <<"alias", Space, "-c">>

\* alias name='command', alias, alias -c, an alias without quotes, and an
\* alias for the word alias
AliasLines ==
    {<<"alias", Space, n, Equals, Quote>> \o c \o <<Quote>> :
         n \in AliasNames, c \in AliasCommands}
    \cup {<<"alias">>, ClearLine, <<"alias", Space, "foo", Equals, "bar">>,
          <<"alias", Space, "alias", Equals, Quote, "pwd", Quote>>}

OtherLines ==
    {<<>>, <<"foo">>, <<"bar">>, <<"bar", Space, "pwd">>, <<"pwd">>, <<"tree">>,
     <<"nosuch">>, <<ProtoName>>}

\* the item as the page finds it: never set, or left there by something else
StoredAtStart == {NoAliases, JsonNull, NotJson}

InitAlias ==
    /\ user = NoUser
    /\ vfs = GuestVfs
    /\ currentPath = Tilde
    /\ objectPrototype = EmptyDir
    /\ last = NoOutcome
    /\ RestIdle
    /\ aliases \in StoredAtStart
    /\ call = NoCall
    /\ ret = NoCall

TypeAlias == Quiet /\ \E line \in AliasLines : Submit(line)
TypeLine == Quiet /\ \E line \in OtherLines : Submit(line)

NextAlias == TypeAlias \/ TypeLine

SpecAlias == InitAlias /\ [][NextAlias]_vars

----------------------------------------------------------------------------
(* Files and directories: a session that makes, replaces and removes them *)

\* the path of the file the default tree holds, which has content
ReadmePath == <<Slash>> \o ReadmeName

FilePaths == {Name, ReadmePath, <<Slash, "a", Slash, "a">>, Tilde, DotDot}

FileArgs(verb) ==
    {<<p>> : p \in FilePaths}
        \cup (IF verb = "rm" THEN {<<RecursiveFlag, p>> : p \in FilePaths} ELSE {})

TypeFileCommand ==
    Quiet /\ \E verb \in MutatingVerbs \cup {"cd"} : \E args \in FileArgs(verb) :
                 Run(verb, args)

NextFiles == TypeFileCommand \/ Login \/ TypeLogout \/ Loading \/ Saving

SpecFiles == InitSession /\ [][NextFiles]_vars

----------------------------------------------------------------------------
(* Saves: a session that does not wait for the answer to a save *)

TypeUnsaved ==
    /\ loads = <<>>
    /\ \E verb \in MutatingVerbs : \E P \in {Name, ReadmePath} : Run(verb, <<P>>)

NextSaves == TypeUnsaved \/ Login \/ Loading \/ Saving

SpecSaves == InitSession /\ [][NextSaves]_vars

----------------------------------------------------------------------------
(* Claims about resolvePath *)

\* the fold of the claim, read from the last segment backwards
RECURSIVE FoldSegments(_)
FoldSegments(segs) ==
    IF Len(segs) = 0 THEN <<>>
    ELSE LET kept == FoldSegments(pop(segs))
             seg == Last(segs)
         IN IF seg = DotDot THEN pop(kept)
            ELSE IF seg = <<Dot>> \/ seg = <<>> THEN kept
            ELSE Append(kept, seg)

\* the string a list of kept segments stands for
RECURSIVE PathOf(_)
PathOf(segs) ==
    IF Len(segs) = 0 THEN <<>> ELSE PathOf(pop(segs)) \o <<Slash>> \o Last(segs)

CanonicalOf(segs) == IF Len(segs) = 0 THEN Tilde ELSE PathOf(segs)

SegmentsOfCurrent(p) == IF p = Tilde THEN <<>> ELSE SegmentsOf(substring1(p))

IsRelativeInput(r) == r # <<>> /\ ~startsWithSlash(r) /\ r # Tilde

Resolved == ret.fn = "resolvePath"

\* C8: for every input path and every canonical currentPath, resolvePath
\* returns a canonical path (~, or / followed by names joined by /, none of
\* them empty, . or ..), absolute inputs included.
C8_ResolveAlwaysCanonical == Resolved => IsCanonical(ret.value)

\* C9: for a canonical currentPath p and a non-empty relative input r,
\* resolvePath(r, p) is the fold of p's segments followed by r's segments
\* (.. drops the last kept segment, if any; . and empty segments are dropped;
\* any other segment is kept); so it has no . or .. segment, and
\* resolvePath("..", "~") is ~.
C9_RelativeResolveIsFold ==
    (Resolved /\ IsRelativeInput(call.path)) =>
        /\ ret.value = CanonicalOf(FoldSegments(SegmentsOfCurrent(currentPath)
                                                  \o SegmentsOf(call.path)))
        /\ IsCanonical(ret.value)
        /\ (call.path = DotDot /\ currentPath = Tilde) => ret.value = Tilde

\* a relative input whose .. drops a segment of currentPath and which then
\* keeps a name of its own
C9_Witness ==
    /\ Resolved
    /\ currentPath = <<Slash, "a">>
    /\ call.path = <<Dot, Dot, Slash, "~">>
    /\ ret.value = <<Slash, "~">>

----------------------------------------------------------------------------
(* Claims about the tree operations *)

\* C10: whenever setObjectByPath(T, P, V) returns true, getObjectByPath on
\* the resulting tree at P returns V.
C10_GetAfterSet ==
    (ret.fn = "get" /\ ret.after = "set" /\ ret.ok) => ret.got = call.value

\* the segments of path before its last one
AncestorParts(path) == pop(split(substring1(path)))

\* some proper ancestor of path is missing from the tree, or is a file
AncestorMissing(obj, path) ==
    /\ path # Tilde
    /\ startsWithSlash(path)
    /\ \E k \in 1..Len(AncestorParts(path)) :
           ~isObject(getLoop(rootOf(obj), SubSeq(AncestorParts(path), 1, k), 1))

\* C11: setObjectByPath(T, P, V) returns false and leaves T as it was
\* whenever a proper ancestor segment of P is missing from T or is a file:
\* it never creates the directories in between.
C11_SetNeedsAncestors ==
    (ret.fn = "set" /\ AncestorMissing(ret.before, call.path)) =>
        (~ret.ok /\ ~ret.threw /\ vfs = ret.before)

----------------------------------------------------------------------------
(* Claims about the session *)

\* C1: every file system verb (ls, cat, cd, mkdir, touch, rm, grep, wc, tree,
\* head) typed while nobody is logged in returns the permission-denied line
\* and its handler reads nothing of the tree.
C1_GuestVerbsDenied ==
    (last.verb \in VfsVerbs /\ last.user = NoUser) =>
        (last.result = "denied" /\ ~last.reads)

\* C5: a mkdir, touch or rm that fails (usage, invalid path, missing or
\* non-directory ancestor, nonexistent target, non-empty directory without
\* -r, root as target) leaves the tree and currentPath unchanged and sends no
\* save; one that succeeds installs the new tree and sends exactly one save,
\* whose body is that tree.
\* a step in which a handler of one of the verbs ran: of all steps only a
\* command leaves the user, the loads and the store alone and withdraws no save
Ran(verbs) ==
    /\ last'.handler \in verbs
    /\ user' = user /\ loads' = loads /\ kv' = kv
    /\ Len(saves') >= Len(saves)

C5_MutationAllOrNothing ==
    [][Ran(MutatingVerbs) =>
          /\ currentPath' = currentPath
          /\ last'.result # "ok" => vfs' = vfs /\ saves' = saves
          /\ last'.result = "ok" =>
                 saves' = Append(saves, [username |-> user.username, tree |-> vfs'])]_vars

\* rm a succeeded: the tree without a is installed and is the body of the
\* one save in flight, the server still holding the tree with a
C5_Witness ==
    /\ last.verb = "rm" /\ last.result = "ok" /\ user = Admin
    /\ getObjectByPath(vfs, <<Slash, "a">>) = Undefined
    /\ saves = <<[username |-> "admin", tree |-> vfs]>>
    /\ getObjectByPath(kv["admin"], <<Slash, "a">>) # Undefined

\* C7: whatever mkdir, touch, rm and cd have been run, the tree has the key
\* ~ and a directory under it; setObjectByPath and deleteObjectByPath with
\* the path ~ return false and leave the tree as it is.
C7_RootStaysDirectory ==
    /\ Tilde \in DOMAIN vfs
    /\ isObject(vfs[Tilde])
    /\ \A value \in TreeValues :
           setObjectByPath(vfs, Tilde, value, objectPrototype)
               = Returned(FALSE, vfs, objectPrototype)
    /\ deleteObjectByPath(vfs, Tilde, objectPrototype)
           = Returned(FALSE, vfs, objectPrototype)

\* rm -r ~ went as far as deleteObjectByPath, which refused: the root and
\* what is under it are still there
C7_Witness ==
    /\ last.verb = "rm" /\ last.result = "nothing removed"
    /\ user # NoUser
    /\ DOMAIN vfs[Tilde].entries # {}

\* C2: while the session has no user, or a user whose role is not admin, a
\* sudo line returns the sudoers line and goes no further: no handler is
\* called on its behalf and no request leaves; so a handler gets isSudo =
\* true only in the session of an admin.
C2_SudoOnlyForAdmin ==
    /\ last.isSudo => (last.session.role = "admin" /\ last.user.role = "admin")
    /\ (last.verb = "sudo" /\ last.session.role # "admin") =>
           /\ last.result = "not in sudoers"
           /\ last.handler = "sudo"
           /\ ~last.sends /\ ~last.reads

\* C3: the server denies a password change exactly when the requester's role
\* is not admin and the target is not the requester: a non-admin changes its
\* own password, an admin anybody's.
Denials == {"401", "403 Forbidden", "403 Permission denied"}

C3_PasswdDeniedOnlyForOthers ==
    served.route = "passwd" =>
        (served.status \in Denials
            <=> (served.token.role # "admin"
                 /\ served.token.username # served.body.username))

\* the user a tree was created for: the name in the README.md that GET
\* /api/vfs put into it ("" when the tree has none)
OwnerOf(t) ==
    LET readme == getObjectByPath(t, <<Slash>> \o ReadmeName)
    IN IF \E n \in Usernames : readme = File(WelcomeText(n))
       THEN CHOOSE n \in Usernames : readme = File(WelcomeText(n))
       ELSE ""

\* C4: whatever the order of logins, logouts and load responses, a session
\* without a user holds the empty tree {~: {}}, the tree of a session whose
\* user is U comes from vfs_U, and no user's tree is stored under the key of
\* another.
C4_TreeBelongsToUser ==
    /\ user = NoUser => vfs = GuestVfs
    /\ user # NoUser => OwnerOf(vfs) \in {user.username, ""}
    /\ \A n \in Usernames : kv[n] # NoBlob => OwnerOf(kv[n]) \in {n, ""}

\* C6: a mkdir, touch or rm that succeeds, typed or repeated by a watch
\* tick, changes a copy of the tree that is current when it runs, and only
\* in one place; a mkdir or touch therefore takes no entry of the root
\* directory away.
C6_MutationOnCurrentTree ==
    [][(Ran({"mkdir", "touch"}) /\ last'.result = "ok") =>
          DOMAIN vfs[Tilde].entries \subseteq DOMAIN vfs'[Tilde].entries]_vars


\* a directory holding at least one entry
HoldsEntries(v) == isObject(v) /\ DOMAIN v.entries # {}

\* the path p and the paths below it
AtAndBelow(p) == {p} \cup {p \o <<Slash>> \o d : d \in Strings(2)}

\* what rm does, in the session of a logged-in user, to the directories of
\* paths that hold an entry: without -r the not-empty line, the tree and the
\* saves as they were; with -r the directory gone with all that was below it
RmOnDirectory(P) ==
    LET path == resolvePath(P, currentPath)
    IN /\ Run("rm", <<P>>) =>
              last'.result = "not empty" /\ vfs' = vfs /\ saves' = saves
       /\ Run("rm", <<RecursiveFlag, P>>) =>
              /\ last'.result = "ok"
              /\ \A q \in AtAndBelow(path) : getObjectByPath(vfs', q) = Undefined

RmStep(paths) ==
    (last'.handler = "rm" /\ user # NoUser) =>
        \A P \in paths :
            HoldsEntries(getObjectByPath(vfs, resolvePath(P, currentPath))) =>
                RmOnDirectory(P)

TouchStep(paths) ==
    (last'.handler = "touch" /\ user # NoUser) =>
        \A P \in paths :
            \E path \in {resolvePath(P, currentPath)} :
                (getObjectByPath(vfs, path) # Undefined /\ Run("touch", <<P>>)) =>
                    /\ last'.result = "ok"
                    /\ getObjectByPath(vfs', path) = File(<<>>)
                    /\ \A q \in AtAndBelow(path) \ {path} :
                           getObjectByPath(vfs', q) = Undefined

C23_MkdirKeepsEntry ==
    [][(last'.handler = "mkdir" /\ user # NoUser) =>
          \A P \in FilePaths :
              (getObjectByPath(vfs, resolvePath(P, currentPath)) # Undefined
                   /\ Run("mkdir", <<P>>)) =>
                  last'.result = "file exists" /\ vfs' = vfs]_vars

\* Q is below P in the tree
Below(P, Q) == Len(Q) > Len(P) /\ SubSeq(Q, 1, Len(P) + 1) = P \o <<Slash>>

\* Q is a directory on the way from the root to P
Above(P, Q) == Q = Tilde \/ Below(Q, P)

\* the paths at which the tree is looked up before and after a command: the
\* root, every path of one or two of the names an entry can have, and /a/a/a
ProbeNames == {Name, <<Dot>>, <<ProtoName>>, ReadmeName}
ProbePaths ==
    {Tilde, <<Slash, "a", Slash, "a", Slash, "a">>}
        \cup {<<Slash>> \o x : x \in ProbeNames}
        \cup {<<Slash>> \o x \o <<Slash>> \o y : x \in ProbeNames, y \in ProbeNames}

\* what a successful mkdir, touch or rm at the path P leaves alone:
\* currentPath, and get at every path that is neither P nor below P (nor,
\* when ancestors are set aside, above P)
FrameStep(asideAncestors) ==
    (last'.handler \in MutatingVerbs /\ last'.result = "ok") =>
        \A verb \in {last'.handler} : \A args \in FileArgs(verb) \cup ArgsOf(verb) :
            (args # <<>> /\ Run(verb, args)) =>
                \E P \in {resolvePath(Last(args), currentPath)} :
                    /\ currentPath' = currentPath
                    /\ \A Q \in ProbePaths :
                           (Q # P /\ ~Below(P, Q) /\ ~(asideAncestors /\ Above(P, Q))) =>
                               getObjectByPath(vfs', Q) = getObjectByPath(vfs, Q)

----------------------------------------------------------------------------
(* Claims about watch *)

\* C13: a watch started with -c N (N >= 1) and not interrupted runs its
\* command N times in all, the run at its start included: it never runs it
\* more often, and once its timer is gone it has run it exactly N times.
C13_WatchRunsCountTimes ==
    \A id \in DOMAIN watches :
        (watches[id].count.finite /\ ~watches[id].interrupted) =>
            /\ watches[id].runs <= watches[id].count.n
            /\ id \notin DOMAIN timers => watches[id].runs = watches[id].count.n


\* C14: at most one handler invocation is in flight in a session: when the
\* handler of a typed line or of a watch tick is invoked, no handler invoked
\* before it is still awaiting the answer to its request.
C14_OneHandlerInFlight == last.pending = 0


\* C15: at most one watch timer is live, and it is the one whose id
\* setActiveInterval recorded; the recorded id is null exactly when no
\* timer is live.
C15_OneLiveTimer ==
    /\ Cardinality(DOMAIN timers) <= 1
    /\ activeIntervalId = 0 <=> timers = <<>>
    /\ activeIntervalId # 0 => DOMAIN timers = {activeIntervalId}


\* C21: once Ctrl+C has cleared the timer of a watch, no execute of that
\* watch starts and none that was awaiting its command's answer goes on to
\* push the command's output to the history.
C21_NothingAfterInterrupt ==
    [][\A id \in DOMAIN watches :
           watches[id].interrupted =>
               /\ watches'[id].runs = watches[id].runs
               /\ watches'[id].awaiting = watches[id].awaiting]_vars

\* C28: the command that a tick of a watch executes never starts a timer,
\* not when it reaches the watch handler through sudo either: no tick makes
\* the number of live timers grow.
C28_TickStartsNoTimer ==
    [][(\E id \in DOMAIN watches : watches'[id].runs > watches[id].runs) =>
           /\ intervals' = intervals
           /\ Cardinality(DOMAIN timers') <= Cardinality(DOMAIN timers)]_vars

----------------------------------------------------------------------------
(* Claims about processCommand *)

Rejections == {"SyntaxError", "TypeError", "RangeError"}

\* C16: whatever the line, the stored alias item and the handler's outcome,
\* processCommand ends with an output envelope: it never throws and its
\* promise is never rejected.
C16_NeverRejects == last.result \notin Rejections


\* the chain of aliases that starts at the word w comes back to a word it
\* has passed
RECURSIVE chainCycles(_, _, _)
chainCycles(table, w, seen) ==
    IF w \in seen THEN TRUE
    ELSE IF w \notin DOMAIN table \/ words(table[w]) = <<>> THEN FALSE
    ELSE chainCycles(table, words(table[w])[1], seen \cup {w})

\* a line went through processCommand with the table now stored (the alias
\* command, which changes the table, is left aside)
Processed ==
    /\ aliases.kind \in {"absent", "object"}
    /\ last.verb \notin {"none", "", "alias"}

\* C18: processCommand gets to the dispatch of a handler, or to command not
\* found, after finitely many alias re-entries exactly when the chain of
\* aliases from the line's first word has no cycle; with a cycle it
\* re-enters for ever and never comes back, so a line that came back had no
\* cycle and ended in a handler or in command not found.
C18_DispatchIffNoCycle ==
    Processed =>
        /\ ~chainCycles(parsedAliases(aliases), <<last.verb>>, {})
        /\ last.handler # "none" \/ last.result = "command not found"

\* C29: whatever alias definitions came before, the line alias -c leaves the
\* alias table empty.
C29_ClearEmptiesTable ==
    [][(aliases.kind \in {"absent", "object"} /\ Submit(ClearLine)) =>
           aliases' = AliasTable(<<>>)]_vars

----------------------------------------------------------------------------
(* Claims about currentPath *)

\* C17: after any sequence of commands currentPath is canonical: ~, or
\* /seg1/seg2/... with no segment empty, . or ..
C17_CurrentPathCanonical == IsCanonical(currentPath)


\* the tree and the path a handler leaves to the next command
TreeAfter(o, before) == IF o.updates THEN o.tree ELSE before
PathAfter(o, path) == IF o.setsPath THEN o.path ELSE path

\* mkdir d, cd d, pwd, touch f, ls, each run on what the one before left
Sequence(d, f) ==
    LET made == mkdir(Context(user, vfs, currentPath), <<d>>, objectPrototype)
        tree1 == TreeAfter(made, vfs)
        moved == cd(Context(user, tree1, currentPath), <<d>>, made.proto)
        path2 == PathAfter(moved, currentPath)
        printed == pwd(Context(user, tree1, path2), <<>>, moved.proto)
        touched == touch(Context(user, tree1, path2), <<f>>, moved.proto)
        tree3 == TreeAfter(touched, tree1)
        listed == ls(Context(user, tree3, path2), <<>>, touched.proto)
    IN [mkdir |-> made, cd |-> moved, pwd |-> printed, touch |-> touched, ls |-> listed]

\* C19: in a logged-in session with currentPath p, for a name d that does
\* not exist under p, mkdir d and cd d succeed and pwd then prints
\* resolvePath(d, p); touch f and ls after that list exactly f.
C19_MkdirCdPwdTouchLs ==
    \A d \in {Name}, f \in {Name} :
        (user # NoUser /\ getObjectByPath(vfs, resolvePath(d, currentPath)) = Undefined) =>
            \E run \in {Sequence(d, f)} :
                /\ run.mkdir.result = "ok"
                /\ run.cd.result = "ok"
                /\ run.pwd.text = {resolvePath(d, currentPath)}
                /\ run.touch.result = "ok"
                /\ run.ls.result = "ok" /\ run.ls.text = {f}

\* C24: in a logged-in session currentPath names a directory of the tree in
\* memory, whatever cd, mkdir, touch and rm commands came before.
C24_CurrentPathIsDirectory ==
    user # NoUser => isObject(getObjectByPath(vfs, currentPath))

----------------------------------------------------------------------------
(* Claims about load and save *)

\* the step in which the answer to GET /api/vfs reaches the session
Arrived == Len(loads') < Len(loads)

\* C20: a user without a blob gets the default tree on the first load, and
\* it is stored; the session then stands at ~ and ls lists README.md alone;
\* a blob that exists is returned as it is and only a save ever replaces it.
C20_DefaultTreeOnlyWhenNoBlob ==
    [][/\ \A n \in Usernames :
              (kv[n] # NoBlob /\ kv'[n] # kv[n]) => Len(saves') < Len(saves)
       /\ \A n \in Usernames :
              (kv[n] = NoBlob /\ kv'[n] # NoBlob /\ saves' = saves) =>
                  kv'[n] = defaultVfs(n)
       /\ (Arrived /\ loads[1].data = defaultVfs(loads[1].username)) =>
              /\ currentPath' = Tilde
              /\ ls(Context(user', vfs', currentPath'), <<>>, objectPrototype).text
                     = {ReadmeName}]_vars


\* the tree a successful touch a at ~ makes of the tree stored
Touched(stored) == touch(Context(Admin, stored, Tilde), <<Name>>, objectPrototype).tree

\* C25: a save replaces the blob of a user only by a tree made from the
\* stored one by successful commands (here touch a at ~, the one command
\* these sessions type): a command typed while the load is in flight never
\* saves a tree built from the placeholder {~: {}} over the stored tree.
C25_SavesBuildOnStoredTree ==
    [][\A n \in Usernames :
           (Len(saves') < Len(saves) /\ kv[n] # NoBlob /\ kv'[n] # kv[n]) =>
               kv'[n] = Touched(kv[n])]_vars


\* C26: in a session whose saves all succeed, once the load is done and no
\* save is in flight the blob stored for the user is the tree in memory,
\* in whatever order the saves reached the store.
C26_StoreFollowsMemory ==
    (user # NoUser /\ loads = <<>> /\ saves = <<>>) => kv[user.username] = vfs


\* C30: once userdel has deleted an account, no blob is stored for it, also
\* when a session holds a token issued to the account before and goes on to
\* load or save.  (No account is created in these sessions: one that does
\* not exist has been deleted, or never was there and has no token.)
C30_NoBlobAfterUserdel ==
    \A n \in Usernames : ~db[n].exists => kv[n] = NoBlob

=============================================================================
